---- MODULE Spec2Model ----
(***************************************************************************)
(* Model of the self-healing system (src/module.py): one monitor-and-heal  *)
(* cycle of SelfHealingSystem.  The remote API, the wall clock and the     *)
(* console are the environment; every answer they can give is an input of  *)
(* the step that consumes it.  Python exceptions are modelled explicitly:  *)
(* an operator that models a function returns either Ok(value) or          *)
(* Raise(exception name), and every try/except of the source is a test on  *)
(* that result.                                                            *)
(*                                                                         *)
(* Time is counted in whole hours.  A creation timestamp is the ISO-8601   *)
(* string of the API, kept as its wall-clock part and its zone suffix.     *)
(***************************************************************************)
EXTENDS Integers, Sequences, FiniteSets

\* ---------------------------------------------------------------- bounds
\* Number of configured repositories that are modelled (a prefix of the list).
NumRepos == 2
\* Longest run list a run-listing response carries.
MaxRuns == 3

\* ------------------------------------------------------ program constants
StaleHours == 8

Absent == "<absent>"
None == "None"

Ok(v) == [raised |-> FALSE, val |-> v]
Raise(e) == [raised |-> TRUE, exc |-> e]

Max(a, b) == IF a >= b THEN a ELSE b

AllRepos ==
  << "github-arbitrage-agent", "ai-wrapper-factory", "saas-template-mill",
     "automation-broker", "crypto-degen-bot", "influencer-farm",
     "course-generator", "patent-scraper", "domain-flipper" >>

get_all_agent_repos == SubSeq(AllRepos, 1, NumRepos)

RepoSet == {get_all_agent_repos[k] : k \in 1..Len(get_all_agent_repos)}

\* ------------------------------------------------------------ timestamps
NoTime == [wall |-> 0, tz |-> None]

\* str.replace('Z', '+00:00') on the zone suffix of the string.
replace_Z(ts) == IF ts.tz = "Z" THEN [ts EXCEPT !.tz = "+00:00"] ELSE ts

\* datetime.fromisoformat: the UTC offset of the suffix, ValueError on a
\* string that is no ISO timestamp.
fromisoformat(ts) ==
  IF ts.tz = "+00:00" THEN Ok([wall |-> ts.wall, utcoffset |-> 0])
  ELSE IF ts.tz = "+02:00" THEN Ok([wall |-> ts.wall, utcoffset |-> 2])
  ELSE Raise("ValueError")

\* datetime.now(tz) - t for an aware t: the difference of the two instants.
time_since(now, t) == now - (t.wall - t.utcoffset)

\* ---------------------------------------------------------- strategy table
load_healing_strategies ==
  [ schedule_failure  |-> [name |-> "Schedule Recovery", action |-> "trigger_manual_run", success_rate |-> 85],
    execution_failure |-> [name |-> "Execution Recovery", action |-> "fix_execution_error", success_rate |-> 70],
    api_error         |-> [name |-> "API Recovery", action |-> "fix_api_issue", success_rate |-> 60],
    default           |-> [name |-> "Default Recovery", action |-> "apply_default_healing", success_rate |-> 50] ]

\* dict.get(key, self.healing_strategies['default'])
strategy_get(table, key) ==
  IF key \in DOMAIN table THEN table[key] ELSE table["default"]

\* ------------------------------------------------------- identity lookup
get_username_no_fallback(id_resp) ==
  IF id_resp.kind = "response" /\ id_resp.status = 200
       /\ id_resp.body \notin {"not_json", "no_login"}
    THEN id_resp.body ELSE None

\* get_username: GET /user; the login of a 200 response, "unknown" on any
\* other status and on any fault (bare except).
get_username(id_resp) ==
  LET attempt ==
        IF id_resp.kind = "fault" THEN Raise("ConnectionError")
        ELSE IF id_resp.status = 200
          THEN IF id_resp.body = "not_json" THEN Raise("JSONDecodeError")
               ELSE IF id_resp.body = "no_login" THEN Raise("KeyError")
               ELSE Ok(id_resp.body)
          ELSE Ok("unknown")
  IN IF attempt.raised THEN "unknown" ELSE attempt.val

\* -------------------------------------------------------- health checker
\* find_last_successful_run: first record, in the order received, whose
\* conclusion is "success"; its created_at (KeyError when it has none).
RECURSIVE find_last_matching(_)
find_last_matching(runs) ==
  IF runs = << >> THEN Ok(NoTime)
  ELSE LET later == find_last_matching(Tail(runs))
       IN IF later.raised \/ later.val # NoTime THEN later
          ELSE IF Head(runs).conclusion = "success"
            THEN IF Head(runs).created_at.tz = "missing" THEN Raise("KeyError")
                 ELSE Ok(Head(runs).created_at)
          ELSE later

RECURSIVE find_last_successful_run(_)
find_last_successful_run(runs) ==
  IF runs = << >> THEN Ok(NoTime)
  ELSE IF Head(runs).conclusion = "success"
    THEN IF Head(runs).created_at.tz = "missing" THEN Raise("KeyError")
         ELSE Ok(Head(runs).created_at)
    ELSE find_last_successful_run(Tail(runs))

is_stale_inclusive(age) == age >= StaleHours

\* time_since_run > timedelta(hours=8)
is_stale(age) == age > StaleHours

Healthy ==
  [healthy |-> TRUE, failure_type |-> Absent, last_success |-> NoTime,
   error_details |-> Absent]

Unhealthy(ft, ls, details) ==
  [healthy |-> FALSE, failure_type |-> ft, last_success |-> ls,
   error_details |-> details]

\* response.json().get('workflow_runs', []) of a 200 response.
runs_of(resp) ==
  IF resp.body.shape = "not_json" THEN Raise("JSONDecodeError")
  ELSE IF resp.body.shape = "array" THEN Raise("AttributeError")
  ELSE IF resp.body.has_list THEN Ok(resp.body.list)
  ELSE Ok(<< >>)

classify_conclusion_first(latest_run, runs, age) ==
  IF latest_run.conclusion = "failure"
    THEN LET ls == find_last_successful_run(runs)
         IN IF ls.raised THEN ls
            ELSE Ok(Unhealthy("execution_failure", ls.val, Absent))
  ELSE IF is_stale(age)
    THEN Ok(Unhealthy("schedule_failure", latest_run.created_at, Absent))
  ELSE Ok(Healthy)

\* The two tests on the most recent record, in the order of the source: its
\* age first, its conclusion second.
classify(latest_run, runs, age) ==
  IF is_stale(age)
    THEN Ok(Unhealthy("schedule_failure", latest_run.created_at, Absent))
  ELSE IF latest_run.conclusion = "failure"
    THEN LET ls == find_last_successful_run(runs)
         IN IF ls.raised THEN ls
            ELSE Ok(Unhealthy("execution_failure", ls.val, Absent))
  ELSE Ok(Healthy)

\* The body of the try block of check_agent_health, after the URL is built.
check_body(runs_resp, now) ==
  IF runs_resp.kind = "fault" THEN Raise("ConnectionError")
  ELSE IF runs_resp.status = 200
    THEN LET runs == runs_of(runs_resp)
         IN IF runs.raised THEN runs
            ELSE IF runs.val # << >>
              THEN LET latest_run == runs.val[1]
                       last_run_time ==
                         IF latest_run.created_at.tz = "missing" THEN Raise("KeyError")
                         ELSE fromisoformat(replace_Z(latest_run.created_at))
                   IN IF last_run_time.raised THEN last_run_time
                      ELSE classify(latest_run, runs.val,
                                    time_since(now, last_run_time.val))
              ELSE Ok(Unhealthy("api_error", NoTime, Absent))
    ELSE Ok(Unhealthy("api_error", NoTime, Absent))

check_agent_health_unguarded(runs_resp, now) == check_body(runs_resp, now)

\* check_agent_health: the try block and its except Exception handler.
check_agent_health(runs_resp, now) ==
  LET attempt == check_body(runs_resp, now)
  IN IF attempt.raised
       THEN Ok(Unhealthy("exception", NoTime, attempt.exc))
       ELSE attempt

\* The dictionary detect_failed_agents appends for an unhealthy repository.
failed_agent(repo, status) ==
  [repo |-> repo,
   failure_type |-> status.failure_type,
   last_success |-> status.last_success,
   error_details |-> IF status.error_details = Absent THEN "Unknown"
                     ELSE status.error_details]

\* ------------------------------------------------------------ remediator
\* The first workflow's id: response.json().get('workflows', []) and
\* workflows[0]['id'] of a 200 response.  Ok(0) stands for "no workflow".
first_workflow_id(resp) ==
  IF resp.body.shape = "not_json" THEN Raise("JSONDecodeError")
  ELSE IF resp.body.shape = "array" THEN Raise("AttributeError")
  ELSE IF resp.body.has_list /\ resp.body.list # << >>
    THEN IF resp.body.list[1].has_id THEN Ok(resp.body.list[1].id)
         ELSE Raise("KeyError")
  ELSE Ok(0)

\* What a call of a remediation function did to the outside world, with its
\* result: the identity lookups it made (in order), the user name in each
\* URL it built (in order), whether it listed workflows and posted a
\* dispatch, and the environment inputs it consumed.
Effect(res, ids, urls, listed, dispatched, used) ==
  [res |-> res, ids |-> ids, urls |-> urls, listed |-> listed,
   dispatched |-> dispatched, used |-> used]

\* The workflow id in the URL of the dispatch request.
dispatch_target(env) == first_workflow_id(env.wf).val

\* The except handler of trigger_manual_run: print, then return False.  A
\* fault of that print leaves the function.
trigger_handler(env, ids, urls, listed, dispatched, used) ==
  Effect(IF env.c161 = "written" THEN Ok(FALSE) ELSE Raise("OSError"),
         ids, urls, listed, dispatched, used \cup {"c161"})

\* trigger_manual_run: list the workflows, dispatch the first one on "main".
trigger_manual_run(env) ==
  LET u1 == get_username(env.id1)
      in1 == {"id1", "wf"}
  IN IF env.wf.kind = "fault"
       THEN trigger_handler(env, <<env.id1>>, <<u1>>, TRUE, FALSE, in1)
     ELSE IF env.wf.status = 200
       THEN LET wid == first_workflow_id(env.wf)
            IN IF wid.raised
                 THEN trigger_handler(env, <<env.id1>>, <<u1>>, TRUE, FALSE, in1)
               ELSE IF wid.val # 0
                 THEN LET u2 == get_username(env.id2)
                          in2 == in1 \cup {"id2", "disp"}
                          ids == <<env.id1, env.id2>>
                          urls == <<u1, u2>>
                      IN IF env.disp.kind = "fault"
                           THEN trigger_handler(env, ids, urls, TRUE, TRUE, in2)
                         ELSE IF env.disp.status = 204
                           THEN IF env.c155 = "written"
                                  THEN Effect(Ok(TRUE), ids, urls, TRUE, TRUE, in2 \cup {"c155"})
                                  ELSE trigger_handler(env, ids, urls, TRUE, TRUE, in2 \cup {"c155"})
                         ELSE Effect(Ok(FALSE), ids, urls, TRUE, TRUE, in2)
               ELSE Effect(Ok(FALSE), <<env.id1>>, <<u1>>, TRUE, FALSE, in1)
     ELSE Effect(Ok(FALSE), <<env.id1>>, <<u1>>, TRUE, FALSE, in1)

fix_execution_error(env) == trigger_manual_run(env)

fix_api_issue_retrigger(env) == trigger_manual_run(env)

fix_api_issue(env) == Effect(Ok(TRUE), << >>, << >>, FALSE, FALSE, {})

apply_default_healing(env) == trigger_manual_run(env)

heal_dispatch_always_trigger(failure_type, env) == trigger_manual_run(env)

\* The strategy dispatch inside the try block of heal_agent.
heal_dispatch(failure_type, env) ==
  IF failure_type = "schedule_failure" THEN trigger_manual_run(env)
  ELSE IF failure_type = "execution_failure" THEN fix_execution_error(env)
  ELSE IF failure_type = "api_error" THEN fix_api_issue(env)
  ELSE apply_default_healing(env)

\* heal_agent: the progress line, the strategy lookup, the try block and its
\* except Exception handler.  The progress line is printed outside the try.
heal_agent(agent, env) ==
  IF env.c109 # "written"
    THEN Effect(Raise("OSError"), << >>, << >>, FALSE, FALSE, {"c109"})
  ELSE LET healing_strategy == strategy_get(load_healing_strategies, agent.failure_type)
           e == heal_dispatch(agent.failure_type, env)
           used == e.used \cup {"c109"}
       IN IF e.res.raised
            THEN Effect(Ok([repo |-> agent.repo, success |-> FALSE,
                            strategy_used |-> Absent, error |-> e.res.exc]),
                        e.ids, e.urls, e.listed, e.dispatched, used)
            ELSE Effect(Ok([repo |-> agent.repo, success |-> e.res.val,
                            strategy_used |-> healing_strategy.name, error |-> Absent]),
                        e.ids, e.urls, e.listed, e.dispatched, used)

\* ------------------------------------------------------- failure analyzer
count_type(failed, ft) ==
  Cardinality({k \in 1..Len(failed) : failed[k].failure_type = ft})

analyze_failures(failed) ==
  LET types == {failed[k].failure_type : k \in 1..Len(failed)}
      failure_types == [ft \in types |-> count_type(failed, ft)]
      get(ft) == IF ft \in types THEN failure_types[ft] ELSE 0
      p1 == IF get("schedule_failure") > 3
              THEN <<"Multiple schedule failures - check GitHub Actions limits">>
              ELSE << >>
      p2 == IF get("execution_failure") > 2
              THEN <<"Multiple execution failures - check code quality">>
              ELSE << >>
  IN [total_failures |-> Len(failed), failure_types |-> failure_types,
      patterns |-> p1 \o p2]

\* ------------------------------------------------------------ orchestrator
succeeded(r) == r.success

summary_counting_all(failed, results) ==
  [failed_agents |-> Len(failed),
   healed_agents |-> Len(results),
   healing_success_rate |-> [num |-> Len(results) * 100, den |-> Max(Len(results), 1)]]

\* The dictionary monitor_and_heal returns.  The rate is a Python float; it
\* is kept exact, as the fraction num/den.
summary(failed, results) ==
  LET healed == Len(SelectSeq(results, succeeded))
  IN [failed_agents |-> Len(failed),
      healed_agents |-> healed,
      healing_success_rate |-> [num |-> healed * 100, den |-> Max(Len(results), 1)]]

stages_heal_first == <<"start", "detect", "heal", "analyze", "update", "done">>

\* The statement order of monitor_and_heal.
stages == <<"start", "detect", "analyze", "heal", "update", "done">>

stage_after(s) ==
  LET k == CHOOSE j \in 1..Len(stages) : stages[j] = s
  IN stages[k + 1]

\* ------------------------------------------------------------ environment
\* Answers of GET /user.
IdResponses ==
  { [kind |-> "fault", status |-> 0, body |-> "none"],
    [kind |-> "response", status |-> 200, body |-> "octocat"],
    [kind |-> "response", status |-> 200, body |-> "no_login"],
    [kind |-> "response", status |-> 401, body |-> "none"] }

\* Answers of GET /user met while remediating: one that delivers the login
\* and one that does not.
HealIdResponses ==
  { [kind |-> "fault", status |-> 0, body |-> "none"],
    [kind |-> "response", status |-> 200, body |-> "octocat"] }

\* The lookup did not deliver a login.
id_call_failed(id_resp) ==
  ~(id_resp.kind = "response" /\ id_resp.status = 200
      /\ id_resp.body \notin {"not_json", "no_login"})

Conclusions == {"success", "failure", None, "cancelled"}

\* Creation timestamps.  At 20 h UTC their ages are 9 h, 8 h, 6 h and 9 h
\* ("13+02:00" is 11 h UTC); one record carries no timestamp and one a
\* string that is no timestamp.
Stamps ==
  { [wall |-> 11, tz |-> "Z"], [wall |-> 12, tz |-> "Z"], [wall |-> 14, tz |-> "Z"],
    [wall |-> 13, tz |-> "+02:00"],
    [wall |-> 0, tz |-> "missing"], [wall |-> 12, tz |-> "garbage"] }

Clocks == {20}

RunRecords == [created_at : Stamps, conclusion : Conclusions]

SeqsUpTo(S, n) == UNION {[1..k -> S] : k \in 0..n}

NoBody == [shape |-> "object", has_list |-> FALSE, list |-> << >>]

Fault == [kind |-> "fault", status |-> 0, body |-> NoBody]

Response(status, body) == [kind |-> "response", status |-> status, body |-> body]

JsonList(l) == [shape |-> "object", has_list |-> TRUE, list |-> l]

MalformedBodies ==
  { [shape |-> "not_json", has_list |-> FALSE, list |-> << >>],
    [shape |-> "array", has_list |-> FALSE, list |-> << >>] }

\* Answers of GET .../actions/runs the health checker is examined on.
RunResponses ==
  {Fault, Response(404, NoBody), Response(200, NoBody)}
    \cup {Response(200, b) : b \in MalformedBodies}
    \cup {Response(200, JsonList(l)) : l \in SeqsUpTo(RunRecords, MaxRuns)}

Run(w, z, c) == [created_at |-> [wall |-> w, tz |-> z], conclusion |-> c]

\* Answers of GET .../actions/runs met in a whole cycle: one of each kind.
CycleRunResponses ==
  { Fault, Response(404, NoBody),
    Response(200, [shape |-> "not_json", has_list |-> FALSE, list |-> << >>]),
    Response(200, JsonList(<< >>)),
    Response(200, JsonList(<<Run(14, "Z", "success")>>)),
    Response(200, JsonList(<<Run(11, "Z", "success")>>)),
    Response(200, JsonList(<<Run(14, "Z", "failure")>>)) }

CycleClocks == {20}

Workflow(id) == [has_id |-> TRUE, id |-> id]

\* Answers of GET .../actions/workflows.
WorkflowResponses ==
  { Fault, Response(404, NoBody),
    Response(200, [shape |-> "not_json", has_list |-> FALSE, list |-> << >>]),
    Response(200, JsonList(<< >>)),
    Response(200, JsonList(<<Workflow(7), Workflow(9)>>)) }

\* Answers of POST .../dispatches.
DispatchResponses == {Fault, Response(204, NoBody), Response(422, NoBody)}

\* What a print does: the line is written, or the write raises OSError.
Console == {"written", "oserror"}

EnvFields == {"c109", "id1", "wf", "id2", "disp", "c155", "c161"}

DefaultEnv ==
  [c109 |-> "written", id1 |-> [kind |-> "fault", status |-> 0, body |-> "none"],
   wf |-> Fault, id2 |-> [kind |-> "fault", status |-> 0, body |-> "none"],
   disp |-> Fault, c155 |-> "written", c161 |-> "written"]

AllEnvs ==
  [c109 : Console, id1 : HealIdResponses, wf : WorkflowResponses, id2 : HealIdResponses,
   disp : DispatchResponses, c155 : Console, c161 : Console]

\* The environments of one heal_agent call on an agent of the given failure
\* type: every input the call does not consume is left at its default.
EnvsOf(ft) ==
  {env \in AllEnvs :
     LET used == heal_agent([repo |-> "", failure_type |-> ft], env).used
     IN \A f \in EnvFields \ used : env[f] = DefaultEnv[f]}

TriggerEnvs == EnvsOf("schedule_failure")

ApiEnvs == EnvsOf("api_error")

HealEnvs(ft) == IF ft = "api_error" THEN ApiEnvs ELSE TriggerEnvs

\* ------------------------------------------------------------------ state
VARIABLES
  pc,               \* the statement of monitor_and_heal that runs next
  i,                \* 1-based position of the running for loop
  failed_agents,    \* detect_failed_agents' list
  failure_analysis, \* the analyzer's result
  healing_results,  \* monitor_and_heal's list of heal_agent results
  result,           \* what monitor_and_heal returned
  calls,            \* per repository: the requests issued for it so far
  net,              \* the identity lookups and URLs of the last step
  console_fault,    \* some print has raised so far
  trace,            \* the operations performed so far, in order
  hc,               \* the last health check: its inputs and its status
  hl                \* the last remediation: the agent and what came of it

vars ==
  <<pc, i, failed_agents, failure_analysis, healing_results, result, calls,
    net, console_fault, trace, hc, hl>>

NoAnalysis == [total_failures |-> -1, failure_types |-> << >>, patterns |-> << >>]

NoResult ==
  [failed_agents |-> -1, healed_agents |-> -1,
   healing_success_rate |-> [num |-> -1, den |-> 1]]

NoCheck ==
  [repo |-> "", runs_resp |-> Fault, clock |-> 0, status |-> Healthy]

NoHeal ==
  [agent |-> failed_agent("", Healthy), returned |-> FALSE,
   result |-> [repo |-> "", success |-> FALSE, strategy_used |-> Absent, error |-> Absent],
   listed |-> FALSE, dispatched |-> FALSE, workflow |-> FALSE, accepted |-> FALSE,
   first_listed |-> 0, target |-> 0,
   calls_before |-> [runs |-> 0, workflows |-> 0, dispatches |-> 0]]

NoCalls == [runs |-> 0, workflows |-> 0, dispatches |-> 0]

\* The state after SelfHealingSystem(token), at the given statement of
\* monitor_and_heal.
InitAt(stage, done) ==
  /\ pc = stage
  /\ i = 1
  /\ failed_agents = << >>
  /\ failure_analysis = NoAnalysis
  /\ healing_results = << >>
  /\ result = NoResult
  /\ calls = [r \in RepoSet |-> NoCalls]
  /\ net = [failed_before |-> FALSE, ids |-> << >>, urls |-> << >>,
            all_refused |-> TRUE]
  /\ console_fault = FALSE
  /\ trace = done
  /\ hc = NoCheck
  /\ hl = NoHeal

Init == InitAt("start", << >>)

Event(op, repo) == [op |-> op, repo |-> repo]

\* Some identity lookup failed up to and including the last step.
id_failed_so_far ==
  net.failed_before \/ \E k \in 1..Len(net.ids) : net.ids[k] = "failed"

\* The identity lookups of a new step (each "ok" or "failed", in order) and
\* the user name of each URL it built; all_refused tells whether every run
\* listing so far went to an "unknown" URL and got a non-success response.
NetOf(ids, urls, refused) ==
  [failed_before |-> id_failed_so_far,
   ids |-> [k \in 1..Len(ids) |-> IF id_call_failed(ids[k]) THEN "failed" ELSE "ok"],
   urls |-> urls,
   all_refused |-> (net.all_refused /\ refused)]

\* monitor_and_heal, line 17: the banner.
Start ==
  /\ pc = "start"
  /\ \E c \in Console :
       /\ pc' = IF c = "written" THEN stage_after("start") ELSE "raised"
       /\ console_fault' = (c # "written")
  /\ i' = 1
  /\ net' = NetOf(<< >>, << >>, TRUE)
  /\ trace' = Append(trace, Event("banner", ""))
  /\ UNCHANGED <<failed_agents, failure_analysis, healing_results, result, calls, hc, hl>>

\* One iteration of the loop of detect_failed_agents: check_agent_health on
\* the next repository, with the answers drawn from the given sets.
DetectStep(Ids, Runs, Nows) ==
  /\ pc = "detect"
  /\ i <= Len(get_all_agent_repos)
  /\ \E id_resp \in Ids, runs_resp \in Runs, now \in Nows :
       \E repo \in {get_all_agent_repos[i]}, user \in {get_username(id_resp)},
          status \in {check_agent_health(runs_resp, now)} :
          /\ net' = NetOf(<<id_resp>>, <<user>>,
                        user = "unknown" /\ runs_resp.kind = "response"
                          /\ runs_resp.status # 200)
          /\ calls' = [calls EXCEPT ![repo].runs = @ + 1]
          /\ IF status.raised
               THEN /\ pc' = "raised"
                    /\ hc' = [repo |-> repo, runs_resp |-> runs_resp, clock |-> now,
                              status |-> Unhealthy("<raised>", NoTime, status.exc)]
                    /\ UNCHANGED <<i, failed_agents>>
               ELSE /\ pc' = pc
                    /\ i' = i + 1
                    /\ hc' = [repo |-> repo, runs_resp |-> runs_resp, clock |-> now,
                              status |-> status.val]
                    /\ failed_agents' =
                         IF ~status.val.healthy
                           THEN Append(failed_agents, failed_agent(repo, status.val))
                           ELSE failed_agents
          /\ trace' = Append(trace, Event("check", repo))
  /\ UNCHANGED <<failure_analysis, healing_results, result, console_fault, hl>>

CheckRepo == DetectStep(IdResponses, CycleRunResponses, CycleClocks)

\* detect_failed_agents returns its list.
DetectReturn ==
  /\ pc = "detect"
  /\ i > Len(get_all_agent_repos)
  /\ pc' = stage_after("detect")
  /\ i' = 1
  /\ UNCHANGED <<failed_agents, failure_analysis, healing_results, result, calls,
                 net, console_fault, trace, hc, hl>>

\* analyze_failures over the failed set.
Analyze ==
  /\ pc = "analyze"
  /\ failure_analysis' = analyze_failures(failed_agents)
  /\ pc' = stage_after("analyze")
  /\ i' = 1
  /\ net' = NetOf(<< >>, << >>, TRUE)
  /\ trace' = Append(trace, Event("analyze", ""))
  /\ UNCHANGED <<failed_agents, healing_results, result, calls, console_fault, hc, hl>>

AddCalls(c, e) ==
  [runs |-> c.runs,
   workflows |-> c.workflows + (IF e.listed THEN 1 ELSE 0),
   dispatches |-> c.dispatches + (IF e.dispatched THEN 1 ELSE 0)]

\* One iteration of the healing loop: heal_agent on the next failed agent.
HealAgent ==
  /\ pc = "heal"
  /\ i <= Len(failed_agents)
  /\ LET agent == failed_agents[i]
     IN \E env \in HealEnvs(agent.failure_type) :
          \E e \in {heal_agent(agent, env)} :
             /\ net' = NetOf(e.ids, e.urls, TRUE)
             /\ calls' = [calls EXCEPT ![agent.repo] = AddCalls(@, e)]
             /\ console_fault' =
                  (console_fault \/ \E f \in e.used \cap {"c109", "c155", "c161"} :
                                      env[f] # "written")
             /\ hl' = [agent |-> agent, returned |-> ~e.res.raised,
                       result |-> IF e.res.raised THEN NoHeal.result ELSE e.res.val,
                       listed |-> e.listed, dispatched |-> e.dispatched,
                       workflow |-> ("disp" \in e.used),
                       accepted |-> ("disp" \in e.used /\ env.disp.kind = "response"
                                       /\ env.disp.status = 204),
                       first_listed |->
                         IF env.wf.kind = "response" /\ env.wf.status = 200
                              /\ env.wf.body.shape = "object" /\ env.wf.body.has_list
                              /\ env.wf.body.list # << >>
                           THEN env.wf.body.list[1].id ELSE 0,
                       target |-> IF e.dispatched THEN dispatch_target(env) ELSE 0,
                       calls_before |-> calls[agent.repo]]
             /\ IF e.res.raised
                  THEN /\ pc' = "raised"
                       /\ UNCHANGED <<i, healing_results>>
                  ELSE /\ pc' = pc
                       /\ i' = i + 1
                       /\ healing_results' = Append(healing_results, e.res.val)
             /\ trace' = Append(trace, Event("heal", agent.repo))
  /\ UNCHANGED <<failed_agents, failure_analysis, result, hc>>

\* The healing loop has run out of agents.
HealLoopEnd ==
  /\ pc = "heal"
  /\ i > Len(failed_agents)
  /\ pc' = stage_after("heal")
  /\ i' = 1
  /\ UNCHANGED <<failed_agents, failure_analysis, healing_results, result, calls,
                 net, console_fault, trace, hc, hl>>

\* update_healing_strategies (it does nothing) and the return statement.
UpdateAndReturn ==
  /\ pc = "update"
  /\ result' = summary(failed_agents, healing_results)
  /\ pc' = stage_after("update")
  /\ net' = NetOf(<< >>, << >>, TRUE)
  /\ trace' = Append(trace, Event("summary", ""))
  /\ UNCHANGED <<i, failed_agents, failure_analysis, healing_results, calls,
                 console_fault, hc, hl>>

Next ==
  \/ Start
  \/ CheckRepo
  \/ DetectReturn
  \/ Analyze
  \/ HealAgent
  \/ HealLoopEnd
  \/ UpdateAndReturn

Spec == Init /\ [][Next]_vars

\* The health checker on its own: the first iteration of the detection loop,
\* on every answer of the run listing up to MaxRuns records.
HealthInit == InitAt("detect", <<[op |-> "banner", repo |-> ""]>>)

HealthCheck == i = 1 /\ DetectStep(IdResponses, RunResponses, Clocks)

SpecHealth == HealthInit /\ [][HealthCheck]_vars

\* ================================================================ claims
\* ------------------------------------------------- health checker claims
\* The answer of the run listing the last health check got.
Listing == hc.runs_resp

Latest == Listing.body.list[1]

\* The last health check got a 200 answer with a non-empty list whose first
\* record carries a creation timestamp.
GotRuns ==
  /\ hc.repo # ""
  /\ Listing.kind = "response" /\ Listing.status = 200
  /\ Listing.body.shape = "object" /\ Listing.body.has_list
  /\ Listing.body.list # << >>
  /\ Latest.created_at.tz \in {"Z", "+02:00"}

\* Every record of that list carries a creation timestamp.
AllStamped ==
  \A k \in 1..Len(Listing.body.list) : Listing.body.list[k].created_at.tz # "missing"

\* Hours between the creation instant of a record and the clock reading.
HoursOld(run, clock) ==
  clock - (run.created_at.wall - (IF run.created_at.tz = "Z" THEN 0 ELSE 2))

LatestAge == HoursOld(Latest, hc.clock)

\* C2: a 200 answer whose first record is older than 8 hours is classified
\* unhealthy with failure_type schedule_failure whatever that record's
\* conclusion is, and last_success is that record's own creation timestamp.
C2_StaleRunIsScheduleFailure ==
  (GotRuns /\ LatestAge > 8) =>
     /\ ~hc.status.healthy
     /\ hc.status.failure_type = "schedule_failure"
     /\ hc.status.last_success = Latest.created_at

\* A stale most recent record whose conclusion is "failure" was classified.
C2_Witness ==
  /\ GotRuns /\ LatestAge > 8 /\ Latest.conclusion = "failure"
  /\ hc.status.failure_type = "schedule_failure"
  /\ hc.status.last_success.tz = "+02:00"

\* The positions of the records with conclusion "success".
SuccessAt == {k \in 1..Len(Listing.body.list) : Listing.body.list[k].conclusion = "success"}

\* C3: a most recent record with conclusion "failure" and age <= 8 hours is
\* classified execution_failure, and last_success is the creation timestamp
\* of the first record in the order received whose conclusion is "success",
\* or null when the list has none (the records being run records, each
\* with its creation timestamp).
C3_FreshFailureIsExecutionFailure ==
  (GotRuns /\ AllStamped /\ LatestAge <= 8 /\ Latest.conclusion = "failure") =>
     /\ ~hc.status.healthy
     /\ hc.status.failure_type = "execution_failure"
     /\ IF SuccessAt = {}
          THEN hc.status.last_success = NoTime
          ELSE \E k \in SuccessAt :
                 /\ \A j \in SuccessAt : k <= j
                 /\ hc.status.last_success = Listing.body.list[k].created_at

\* A fresh failure followed by two successful runs of different times: the
\* earlier one in the list was reported.
C3_Witness ==
  /\ GotRuns /\ AllStamped /\ LatestAge <= 8 /\ Latest.conclusion = "failure"
  /\ Cardinality(SuccessAt) = 2
  /\ \E j, k \in SuccessAt :
       /\ j < k
       /\ Listing.body.list[j].created_at # Listing.body.list[k].created_at
       /\ hc.status.last_success = Listing.body.list[j].created_at

\* C4: a most recent record whose conclusion is not "failure" (a missing
\* conclusion included) and whose age is at most 8 hours (exactly 8 hours
\* included) is reported healthy, and the repository is not added to the
\* failed set.
C4_FreshNonFailureIsHealthy ==
  (GotRuns /\ LatestAge <= 8 /\ Latest.conclusion # "failure") =>
     /\ hc.status.healthy
     /\ \A k \in 1..Len(failed_agents) : failed_agents[k].repo # hc.repo

\* A run still in progress (no conclusion) that is exactly 8 hours old.
C4_Witness ==
  /\ GotRuns /\ LatestAge = 8 /\ Latest.conclusion = None
  /\ hc.status.healthy
  /\ failed_agents = << >>

\* -------------------------------------------------------- cycle claims
LastOp == IF trace = << >> THEN "" ELSE trace[Len(trace)].op

IsCheck(ev) == ev.op = "check"

IsHeal(ev) == ev.op = "heal"

IsAnalyze(ev) == ev.op = "analyze"

IsSummary(ev) == ev.op = "summary"

Checks == SelectSeq(trace, IsCheck)

Heals == SelectSeq(trace, IsHeal)

Healed == hl.agent.repo # ""

\* C1: whatever the remote calls answer (a success status, another status,
\* a malformed payload, a transport fault), and the console taking every
\* progress line, no fault leaves check_agent_health, trigger_manual_run or
\* heal_agent, the cycle is never aborted and can always go on until it has
\* returned its three summary fields after one check per repository and one
\* remediation per failed agent; a remediation that was not accepted is
\* recorded with success = false.
C1_NoFaultEscapes ==
  ~console_fault =>
     /\ pc # "raised"
     /\ hc.status.failure_type # "<raised>"
     /\ \A k \in 1..Len(healing_results) :
          /\ healing_results[k].error = Absent
          /\ healing_results[k].strategy_used # Absent
     /\ Healed => hl.returned
     /\ (Healed /\ hl.agent.failure_type # "api_error" /\ ~hl.accepted) =>
          /\ ~hl.result.success
          /\ \E k \in 1..Len(healing_results) : healing_results[k] = hl.result
     /\ (pc # "done") => ENABLED Next
     /\ (pc = "done") =>
          /\ DOMAIN result = {"failed_agents", "healed_agents", "healing_success_rate"}
          /\ result.failed_agents = Len(failed_agents)
          /\ Len(Checks) = NumRepos
          /\ Len(healing_results) = Len(failed_agents)

\* A cycle that ran to its end although the first repository's check hit a
\* fault and its remediation failed; the second failed agent was still
\* remediated.
C1_Witness ==
  /\ pc = "done" /\ ~console_fault
  /\ Len(failed_agents) = 2 /\ Len(healing_results) = 2
  /\ failed_agents[1].failure_type = "exception"
  /\ ~healing_results[1].success
  /\ healing_results[2].success

\* C5: heal_agent on an api_error agent returns success = true and issues no
\* remote call at all (no identity lookup, no workflow listing, no dispatch).
C5_ApiErrorHealIsNoOp ==
  (Healed /\ hl.agent.failure_type = "api_error") =>
     /\ ~hl.listed /\ ~hl.dispatched
     /\ calls[hl.agent.repo] = hl.calls_before
     /\ hl.returned => (hl.result.success /\ hl.result.strategy_used = "API Recovery")
     /\ ~console_fault => hl.returned
     /\ (LastOp = "heal" /\ trace[Len(trace)].repo = hl.agent.repo) =>
          (net.ids = << >> /\ net.urls = << >>)

\* An api_error agent was remediated: success, and only the run listing of
\* its health check was ever requested for it.
C5_Witness ==
  /\ Healed /\ hl.agent.failure_type = "api_error"
  /\ hl.returned /\ hl.result.success
  /\ LastOp = "heal"
  /\ calls[hl.agent.repo] = [runs |-> 1, workflows |-> 0, dispatches |-> 0]

SuccessCount == Cardinality({k \in 1..Len(healing_results) : healing_results[k].success})

Rate == result.healing_success_rate

\* C6: the returned healing_success_rate is (number of results with success
\* = true) / max(number of results, 1) * 100: it is 0 when no repository
\* failed, healed_agents <= failed_agents, the rate lies in [0, 100], and it
\* is 100 exactly when some repository failed and every remediation
\* succeeded.
C6_SuccessRate ==
  (pc = "done") =>
     /\ Rate.den > 0
     /\ Rate.num * Max(Len(healing_results), 1) = SuccessCount * 100 * Rate.den
     /\ result.healed_agents = SuccessCount
     /\ result.failed_agents = Len(failed_agents)
     /\ (failed_agents = << >>) => Rate.num = 0
     /\ result.healed_agents <= result.failed_agents
     /\ 0 <= Rate.num /\ Rate.num <= 100 * Rate.den
     /\ (Rate.num = 100 * Rate.den) <=>
          (Len(failed_agents) >= 1 /\ SuccessCount = Len(failed_agents))

\* A cycle with two failed agents of which one was healed: 50 percent.
C6_Witness ==
  /\ pc = "done"
  /\ result.failed_agents = 2 /\ result.healed_agents = 1
  /\ Rate.num * 2 = 100 * Rate.den

\* The operations of the trace occur in the order the ranks give.
InOrder(rank) ==
  \A j, k \in 1..Len(trace) : j < k => rank[trace[j].op] <= rank[trace[k].op]

\* Each repository is checked once, each failed agent remediated once, in
\* list order, and the analysis and the summary happen at most once.
OnceEach ==
  /\ Len(Checks) <= NumRepos
  /\ \A k \in 1..Len(Checks) : Checks[k].repo = get_all_agent_repos[k]
  /\ Len(Heals) <= Len(failed_agents)
  /\ \A k \in 1..Len(Heals) : Heals[k].repo = failed_agents[k].repo
  /\ Len(SelectSeq(trace, IsAnalyze)) <= 1
  /\ Len(SelectSeq(trace, IsSummary)) <= 1

Analyzed == SelectSeq(trace, IsAnalyze) # << >>

Summarised == SelectSeq(trace, IsSummary) # << >>

\* C7 as stated: checks, then every remediation, then the analysis, then
\* the summary; the analysis runs only after all remediations were attempted.
C7_AnalysisAfterHealing ==
  /\ OnceEach
  /\ InOrder([banner |-> 0, check |-> 1, heal |-> 2, analyze |-> 3, summary |-> 4])
  /\ Analyzed => (Len(Checks) = NumRepos /\ Len(Heals) = Len(failed_agents))
  /\ Summarised => Analyzed

\* C7 as the code runs: the health check of every repository (once each),
\* then the failure analysis (once over the batch), then the remediation of
\* every failed agent (once each), then the summary; the analysis runs
\* before any remediation is attempted.
C7_AnalysisBeforeHealing ==
  /\ OnceEach
  /\ InOrder([banner |-> 0, check |-> 1, analyze |-> 2, heal |-> 3, summary |-> 4])
  /\ Analyzed => Len(Checks) = NumRepos
  /\ (Heals # << >>) => Analyzed
  /\ Summarised => (Analyzed /\ Len(Heals) = Len(failed_agents))

\* A finished cycle in which both repositories failed and were remediated.
C7_Witness ==
  /\ pc = "done" /\ Summarised /\ Analyzed
  /\ Len(Checks) = NumRepos
  /\ Len(Heals) = NumRepos

\* The name of the strategy table entry for a failure type.
NameFor(ft) ==
  CASE ft = "schedule_failure" -> "Schedule Recovery"
    [] ft = "execution_failure" -> "Execution Recovery"
    [] ft = "api_error" -> "API Recovery"
    [] OTHER -> "Default Recovery"

\* C8: every result heal_agent returns, on every path, carries strategy_used,
\* equal to the name of the strategy table entry of the agent's failure
\* type, or of the "default" entry when the type has none of its own.
C8_StrategyAlwaysNamed ==
  \A k \in 1..Len(healing_results) :
     healing_results[k].strategy_used = NameFor(failed_agents[k].failure_type)

NonSuccess(resp) == resp.kind = "response" /\ resp.status # 200

\* A run listing requested with an "unknown" URL and answered with a
\* non-success response makes the repository an api_error agent; when that
\* happened to every repository checked so far, all of them are api_error
\* agents.
UnknownUrlIsApiError ==
  /\ (LastOp = "check" /\ net.urls = <<"unknown">> /\ NonSuccess(Listing)) =>
        /\ hc.status.failure_type = "api_error"
        /\ failed_agents # << >>
        /\ failed_agents[Len(failed_agents)].repo = hc.repo
        /\ failed_agents[Len(failed_agents)].failure_type = "api_error"
  /\ net.all_refused =>
        /\ Len(failed_agents) = Len(Checks)
        /\ \A k \in 1..Len(failed_agents) :
              /\ failed_agents[k].repo = get_all_agent_repos[k]
              /\ failed_agents[k].failure_type = "api_error"

\* C9 as stated: once the identity lookup has failed, every URL built from
\* then on in the cycle carries "unknown", and a run listing on such a URL
\* that is answered with a non-success response yields api_error.
C9_UnknownFromThenOn ==
  /\ \A k \in 1..Len(net.urls) :
       (net.failed_before \/ \E j \in 1..k : net.ids[j] = "failed")
          => net.urls[k] = "unknown"
  /\ UnknownUrlIsApiError

\* C9 as the code runs: the identity is looked up anew for every URL; the
\* URL carries "unknown" when its own lookup failed, and a run listing on
\* such a URL that is answered with a non-success response yields api_error.
C9_UnknownPerLookup ==
  /\ Len(net.ids) = Len(net.urls)
  /\ \A k \in 1..Len(net.urls) : net.ids[k] = "failed" => net.urls[k] = "unknown"
  /\ UnknownUrlIsApiError

\* The second repository, checked after an earlier failed lookup: its own
\* lookup failed too, its listing was refused, and it is an api_error agent.
C9_Witness ==
  /\ LastOp = "check" /\ hc.repo = get_all_agent_repos[NumRepos]
  /\ net.failed_before /\ net.ids = <<"failed">> /\ net.urls = <<"unknown">>
  /\ NonSuccess(Listing)
  /\ net.all_refused
  /\ Len(failed_agents) = NumRepos
  /\ failed_agents[1].failure_type = "api_error"
  /\ failed_agents[2].failure_type = "api_error"

\* At most one dispatch per repository, only for a repository classified
\* unhealthy in this cycle with a failure type other than api_error, only
\* after a workflow listing answered 200 with a workflow, and to the first
\* workflow listed.
DispatchSafety ==
  /\ \A r \in RepoSet :
       /\ calls[r].dispatches <= 1
       /\ calls[r].dispatches = 1 =>
            \E k \in 1..Len(failed_agents) :
               /\ failed_agents[k].repo = r
               /\ failed_agents[k].failure_type # "api_error"
  /\ hl.dispatched =>
       /\ hl.agent.failure_type # "api_error"
       /\ hl.first_listed # 0
       /\ hl.target = hl.first_listed

\* The run listing, the workflow listing and the dispatch are requested at
\* most once per repository.
NoRepositoryCallRepeated ==
  \A r \in RepoSet :
     calls[r].runs <= 1 /\ calls[r].workflows <= 1 /\ calls[r].dispatches <= 1

\* No identity lookup is made after one that failed.
NoIdentityCallRepeated ==
  \A k \in 1..Len(net.ids) :
     ~(net.failed_before \/ \E j \in 1..(k - 1) : net.ids[j] = "failed")

\* C10 as stated: the dispatch rules above, and no failed call is repeated
\* within the cycle.
C10_NoFailedCallRepeated ==
  DispatchSafety /\ NoRepositoryCallRepeated /\ NoIdentityCallRepeated

\* C10 as the code runs: the dispatch rules above, and no run listing,
\* workflow listing or dispatch is repeated within the cycle (the identity
\* lookup is repeated for every URL).
C10_DispatchOnlyForFailed ==
  DispatchSafety /\ NoRepositoryCallRepeated

\* A healthy first repository without a dispatch and a failed second one
\* whose first listed workflow was dispatched.
C10_Witness ==
  /\ Len(failed_agents) = 1
  /\ failed_agents[1].repo = get_all_agent_repos[2]
  /\ calls[get_all_agent_repos[1]].dispatches = 0
  /\ calls[get_all_agent_repos[2]].dispatches = 1
  /\ hl.dispatched /\ hl.target = 7

====
